---- MODULE Spec2Model ----
(***************************************************************************)
(* Host application (app1/src/bootstrap.js) rendering the remote Counter   *)
(* component (app2 src/components/Counter.js) through React.lazy and       *)
(* React.Suspense, on react / react-dom 16.13 (ReactDOM.render, i.e. the   *)
(* synchronous legacy root).                                               *)
(*                                                                         *)
(* A state of the model is a state of the page between two browser tasks.  *)
(* Functions of the source are defunctionalised: the arrow functions of    *)
(* bootstrap.js:14-15 are records holding the name of the function and the *)
(* value of `count` their render closed over.                              *)
(***************************************************************************)
EXTENDS Integers, Sequences, FiniteSets

VARIABLES
    lazyStatus,   \* status of the React.lazy object of bootstrap.js:4
    ctorCalls,    \* number of times () => import('app2/Counter') has run
    hooks,        \* hook states of the mounted App: <<>> or <<count>>
    queue,        \* values passed to setCount and not yet rendered
    view,         \* what is committed inside <div id="root">
    nInc,         \* activations of the Increment control so far
    nDec,         \* activations of the Decrement control so far
    incCalls,     \* invocations of an onIncrement closure so far
    decCalls      \* invocations of an onDecrement closure so far

vars == <<lazyStatus, ctorCalls, hooks, queue, view, nInc, nDec, incCalls, decCalls>>

----------------------------------------------------------------------------
(* Bounds *)

MaxClicks == 15    \* activations of the two controls in one behaviour
MaxBatch  == 3     \* callback invocations in one batch (SpecBatch only)
MaxStart  == 2     \* |count| at the start of a SpecBatch behaviour
MaxCalls  == 6     \* callback invocations in one SpecBatch behaviour

----------------------------------------------------------------------------
(* Values of the source *)

InitialCount == 0                       \* useState(0)
Heading      == "Hello from React component"
Fallback     == "Loading Counter..."

Uninitialized == "uninitialized"        \* React.lazy: ctor not yet called
Pending       == "pending"              \* import() in flight
Resolved      == "resolved"             \* module received
Rejected      == "rejected"             \* import() failed

Digit(d) == <<"0", "1", "2", "3", "4", "5", "6", "7", "8", "9">>[d + 1]

RECURSIVE NatToString(_)
NatToString(n) ==
    IF n < 10 THEN <<Digit(n)>>
    ELSE NatToString(n \div 10) \o <<Digit(n % 10)>>

\* the text React writes for the number child {props.count}
ToString(n) == IF n < 0 THEN <<"-">> \o NatToString(-n) ELSE NatToString(n)

----------------------------------------------------------------------------
(* app2: src/components/Counter.js *)

\* a Counter whose Increment button is wired to props.onDecrement and whose
\* Decrement button is wired to props.onIncrement
CounterSwapped(props) ==
    [ p       |-> <<"Count: ">> \o ToString(props.count),
      buttons |-> << [label |-> "Increment", onClick |-> props.onDecrement],
                     [label |-> "Decrement", onClick |-> props.onIncrement] >> ]

\* a Counter that leaves {props.count} out of its paragraph
CounterNoCount(props) ==
    [ p       |-> <<"Count: ">>,
      buttons |-> << [label |-> "Increment", onClick |-> props.onIncrement],
                     [label |-> "Decrement", onClick |-> props.onDecrement] >> ]

\* Counter(props): the fragment <p>, <button>, <button>
Counter(props) ==
    [ p       |-> <<"Count: ">> \o ToString(props.count),
      buttons |-> << [label |-> "Increment", onClick |-> props.onIncrement],
                     [label |-> "Decrement", onClick |-> props.onDecrement] >> ]

----------------------------------------------------------------------------
(* app1: src/bootstrap.js *)

\* () => setCount(count + 1), closed over the `count` of one render
OnIncrementClosure(count) == [fn |-> "onIncrement", count |-> count]

\* () => setCount(count - 1), closed over the `count` of one render
OnDecrementClosure(count) == [fn |-> "onDecrement", count |-> count]

\* both arrow functions written as setCount(count + 1)
SetCountArgBothIncrement(closure) == closure.count + 1

\* the arrow functions stepping by 2
SetCountArgByTwo(closure) ==
    IF closure.fn = "onIncrement" THEN closure.count + 2
                                  ELSE closure.count - 2

\* the argument a closure passes to setCount when it is called
SetCountArg(closure) ==
    IF closure.fn = "onIncrement" THEN closure.count + 1
                                  ELSE closure.count - 1

\* a reducer that adds up the steps of the queued values, as the updater
\* form setCount(c => c + 1) would
RECURSIVE ReduceQueueAccumulate(_, _)
ReduceQueueAccumulate(state, q) ==
    IF q = <<>> THEN state
    ELSE (Head(q) - state) + ReduceQueueAccumulate(state, Tail(q))

\* useState's reducer for setCount(value): every queued value replaces the
\* state, so the last one stands
RECURSIVE ReduceQueue(_, _)
ReduceQueue(state, q) ==
    IF q = <<>> THEN state ELSE ReduceQueue(Head(q), Tail(q))

\* a boundary that renders its children without waiting for the module
SuspenseNoFallback(status, props) ==
    [fallback |-> <<>>, counter |-> <<Counter(props)>>]

\* a boundary that keeps its fallback next to the resolved children
SuspenseKeepsFallback(status, props) ==
    IF status = Resolved
    THEN [fallback |-> <<Fallback>>, counter |-> <<Counter(props)>>]
    ELSE [fallback |-> <<Fallback>>, counter |-> <<>>]

\* <React.Suspense fallback='Loading Counter...'> around the lazy Counter
Suspense(status, props) ==
    IF status = Resolved
    THEN [fallback |-> <<>>, counter |-> <<Counter(props)>>]
    ELSE [fallback |-> <<Fallback>>, counter |-> <<>>]

\* an App whose callbacks are created once, closing over the first count
AppStaleClosures(count, status) ==
    LET props == [ count       |-> count,
                   onIncrement |-> OnIncrementClosure(InitialCount),
                   onDecrement |-> OnDecrementClosure(InitialCount) ]
        s     == Suspense(status, props)
    IN  [h1 |-> <<Heading>>, fallback |-> s.fallback, counter |-> s.counter]

\* App(): the committed output of one render with hook state `count`
App(count, status) ==
    LET props == [ count       |-> count,
                   onIncrement |-> OnIncrementClosure(count),
                   onDecrement |-> OnDecrementClosure(count) ]
        s     == Suspense(status, props)
    IN  [h1 |-> <<Heading>>, fallback |-> s.fallback, counter |-> s.counter]

\* the root container with nothing rendered in it
EmptyRoot == [h1 |-> <<>>, fallback |-> <<>>, counter |-> <<>>]

count == hooks[1]

Mounted == hooks # <<>>

CounterShown == view.counter # <<>>

Button(i) == view.counter[1].buttons[i]

----------------------------------------------------------------------------
(* Specification of the page *)

Init ==
    /\ lazyStatus = Uninitialized
    /\ ctorCalls = 0
    /\ hooks = <<>>
    /\ queue = <<>>
    /\ view = EmptyRoot
    /\ nInc = 0 /\ nDec = 0
    /\ incCalls = 0 /\ decCalls = 0

\* ReactDOM.render(<App />, root): the first render of App creates the hook
\* with useState(0), reaches the lazy Counter, which calls its ctor
\* (import('app2/Counter')) and suspends; the fallback is committed.
Mount ==
    /\ ~Mounted
    /\ lazyStatus = Uninitialized
    /\ hooks' = <<InitialCount>>
    /\ lazyStatus' = Pending
    /\ ctorCalls' = ctorCalls + 1
    /\ view' = App(InitialCount, Pending)
    /\ UNCHANGED <<queue, nInc, nDec, incCalls, decCalls>>

\* the promise of import('app2/Counter') fulfils: the lazy object becomes
\* resolved and the suspended boundary is rendered again, synchronously
ResolveImport ==
    /\ lazyStatus = Pending
    /\ lazyStatus' = Resolved
    /\ view' = App(count, Resolved)
    /\ UNCHANGED <<ctorCalls, hooks, queue, nInc, nDec, incCalls, decCalls>>

\* a rejection that leaves the tree as it was, the fallback still shown
RejectImportKeepsFallback ==
    /\ lazyStatus = Pending
    /\ lazyStatus' = Rejected
    /\ UNCHANGED <<ctorCalls, hooks, queue, view, nInc, nDec, incCalls, decCalls>>

\* the promise of import('app2/Counter') rejects: the lazy object becomes
\* rejected, the retried render throws the error, no error boundary is
\* above it, and React 16 unmounts the whole tree of the root
RejectImport ==
    /\ lazyStatus = Pending
    /\ lazyStatus' = Rejected
    /\ hooks' = <<>>
    /\ view' = EmptyRoot
    /\ UNCHANGED <<ctorCalls, queue, nInc, nDec, incCalls, decCalls>>

\* one click on the i-th button of the committed Counter: React calls its
\* onClick once, setCount queues the value, and on leaving the event
\* handler the queue is processed and App is rendered again
Click(i) ==
    /\ CounterShown
    /\ nInc + nDec < MaxClicks
    /\ LET closure == Button(i).onClick
           q       == Append(queue, SetCountArg(closure))
           next    == ReduceQueue(count, q)
       IN  /\ hooks' = <<next>>
           /\ queue' = <<>>
           /\ view' = App(next, lazyStatus)
           /\ incCalls' = incCalls + (IF closure.fn = "onIncrement" THEN 1 ELSE 0)
           /\ decCalls' = decCalls + (IF closure.fn = "onDecrement" THEN 1 ELSE 0)
    /\ nInc' = nInc + (IF Button(i).label = "Increment" THEN 1 ELSE 0)
    /\ nDec' = nDec + (IF Button(i).label = "Decrement" THEN 1 ELSE 0)
    /\ UNCHANGED <<lazyStatus, ctorCalls>>

ClickIncrement == Click(1)

ClickDecrement == Click(2)

Next ==
    \/ Mount
    \/ ResolveImport
    \/ RejectImport
    \/ ClickIncrement
    \/ ClickDecrement

Spec == Init /\ [][Next]_vars

----------------------------------------------------------------------------
(* Specification of the callbacks of one render called several times      *)
(* before React renders again (one batch of updates)                      *)

Max(a, b) == IF a < b THEN b ELSE a

\* a page whose Counter is shown and whose count is c
InitBatch ==
    \E c \in -MaxStart..MaxStart :
        /\ lazyStatus = Resolved
        /\ ctorCalls = 1
        /\ hooks = <<c>>
        /\ queue = <<>>
        /\ view = App(c, Resolved)
        /\ nInc = Max(c, 0) /\ nDec = Max(-c, 0)
        /\ incCalls = Max(c, 0) /\ decCalls = Max(-c, 0)

\* one call of the onClick closure of the i-th button: setCount queues its
\* argument; the hook state and the committed view stay as they are
Invoke(i) ==
    /\ CounterShown
    /\ Len(queue) < MaxBatch
    /\ (incCalls + decCalls) - (nInc + nDec) < MaxCalls
    /\ LET closure == Button(i).onClick
       IN  /\ queue' = Append(queue, SetCountArg(closure))
           /\ incCalls' = incCalls + (IF closure.fn = "onIncrement" THEN 1 ELSE 0)
           /\ decCalls' = decCalls + (IF closure.fn = "onDecrement" THEN 1 ELSE 0)
    /\ UNCHANGED <<lazyStatus, ctorCalls, hooks, view, nInc, nDec>>

InvokeOnIncrement == Invoke(1)

InvokeOnDecrement == Invoke(2)

\* the end of the batch: the queue is processed and App is rendered again
FlushBatch ==
    /\ queue # <<>>
    /\ LET next == ReduceQueue(count, queue)
       IN  /\ hooks' = <<next>>
           /\ view' = App(next, lazyStatus)
    /\ queue' = <<>>
    /\ UNCHANGED <<lazyStatus, ctorCalls, nInc, nDec, incCalls, decCalls>>

NextBatch ==
    \/ InvokeOnIncrement
    \/ InvokeOnDecrement
    \/ FlushBatch

SpecBatch == InitBatch /\ [][NextBatch]_vars

----------------------------------------------------------------------------
(* Properties *)

\* the text of the Counter's paragraph for the count n
CountText(n) == <<"Count: ">> \o ToString(n)

\* the paragraph the page shows
Displayed == view.counter[1].p

\* C1: after N activations of Increment and M activations of Decrement, in
\* any order, the Counter displays the count N - M.
C1_DisplayedIsNetActivations ==
    /\ CounterShown => /\ Displayed = CountText(nInc - nDec)
                       /\ count = nInc - nDec
    /\ ~CounterShown => nInc = 0 /\ nDec = 0

\* the scenario of the specification: Increment twice, Decrement once
C1_Witness ==
    /\ nInc = 2 /\ nDec = 1
    /\ CounterShown
    /\ Displayed = <<"Count: ", "1">>

\* C2: in every step the count stays unchanged, or an Increment activation
\* raises it by exactly 1, or a Decrement activation lowers it by exactly 1;
\* the controls stay usable whatever the value of the count.
C2_StepByOne ==
    /\ [][ (Mounted /\ Mounted') =>
             \/ count' = count /\ nInc' = nInc /\ nDec' = nDec
             \/ count' = count + 1 /\ nInc' = nInc + 1 /\ nDec' = nDec
             \/ count' = count - 1 /\ nDec' = nDec + 1 /\ nInc' = nInc ]_vars
    /\ []( (CounterShown /\ nInc + nDec < MaxClicks) =>
             (ENABLED ClickIncrement /\ ENABLED ClickDecrement) )

\* a negative count, three below zero
C2_Witness ==
    /\ Mounted
    /\ count = 0 - 3
    /\ nDec = 3 /\ nInc = 0

\* C3: mounting creates the count with value 0, and the first render of
\* the Counter, before any activation, displays "Count: 0".
C3_InitialCountZero ==
    /\ [][ (~Mounted /\ Mounted') => hooks' = <<0>> ]_vars
    /\ []( (CounterShown /\ nInc + nDec = 0) => Displayed = <<"Count: ", "0">> )

\* the Counter rendered for the first time
C3_Witness ==
    /\ lazyStatus = Resolved
    /\ CounterShown
    /\ nInc + nDec = 0
    /\ incCalls + decCalls = 0

\* C4: while the import is pending the page shows "Loading Counter..." and
\* neither the count text nor the two controls.
C4_FallbackWhilePending ==
    lazyStatus = Pending =>
        /\ view.fallback = <<"Loading Counter...">>
        /\ view.counter = <<>>
        /\ view.h1 = <<Heading>>

\* the page right after mounting
C4_Witness ==
    /\ lazyStatus = Pending
    /\ Mounted
    /\ view.fallback # <<>>

\* C5: once the import has resolved it stays resolved, the import is not
\* started again, the fallback is absent and the Counter shows the host's
\* current count.
C5_ResolvedOnce ==
    /\ [][ lazyStatus = Resolved =>
             (lazyStatus' = Resolved /\ ctorCalls' = ctorCalls) ]_vars
    /\ []( lazyStatus = Resolved =>
             /\ view.fallback = <<>>
             /\ CounterShown
             /\ Displayed = CountText(count)
             /\ ctorCalls = 1 )

\* a resolved page some activations later
C5_Witness ==
    /\ lazyStatus = Resolved
    /\ nInc >= 1 /\ nDec >= 1
    /\ view.fallback = <<>>

\* C6 as claimed: whenever the import is pending or has failed, the page
\* shows the heading and the fallback, and the import ran once.
C6_FallbackPersistsOnFailure ==
    lazyStatus \in {Pending, Rejected} =>
        /\ view.fallback = <<Fallback>>
        /\ view.h1 = <<Heading>>
        /\ view.counter = <<>>
        /\ ctorCalls = 1

\* C6 as amended: while the import is pending the heading and the fallback
\* are shown; once it has failed the root is empty (no heading, no
\* fallback, no Counter, no error text), it stays so, and the import is
\* never started again.
C6_FailureUnmountsTree ==
    /\ []( lazyStatus = Pending =>
             (view.fallback = <<Fallback>> /\ view.h1 = <<Heading>> /\ ctorCalls = 1) )
    /\ []( lazyStatus = Rejected =>
             (view = EmptyRoot /\ ~Mounted /\ ctorCalls = 1) )
    /\ [][ lazyStatus = Rejected => UNCHANGED vars ]_vars

\* the page after a failed import
C6_Witness ==
    /\ lazyStatus = Rejected
    /\ view.h1 = <<>>
    /\ view.fallback = <<>>

\* C7: an Increment activation calls onIncrement once and not onDecrement,
\* a Decrement activation calls onDecrement once and not onIncrement, the
\* count changes only in a step that calls one callback, and the step that
\* first renders the Counter leaves the host's state as it is.
C7_OnlyCallbacks ==
    [][ /\ nInc' = nInc + 1 => (incCalls' = incCalls + 1 /\ decCalls' = decCalls)
        /\ nDec' = nDec + 1 => (decCalls' = decCalls + 1 /\ incCalls' = incCalls)
        /\ (Mounted /\ Mounted' /\ count' # count) =>
               incCalls' + decCalls' = incCalls + decCalls + 1
        /\ (~CounterShown /\ CounterShown') =>
               (hooks' = hooks /\ queue' = queue /\ incCalls' = incCalls
                /\ decCalls' = decCalls) ]_vars

\* both controls have been activated
C7_Witness ==
    /\ nInc = 1 /\ nDec = 1
    /\ incCalls = 1 /\ decCalls = 1
    /\ CounterShown

\* C8: between activations no update is outstanding and the callbacks on
\* the page close over the current count, so each activation moves the
\* count from the value the previous one left by exactly one.
C8_NoLostUpdate ==
    /\ []( queue = <<>> )
    /\ []( CounterShown =>
             \A i \in 1..2 : Button(i).onClick.count = count )
    /\ [][ /\ nInc' = nInc + 1 => count' = count + 1
           /\ nDec' = nDec + 1 => count' = count - 1 ]_vars

\* two activations of the same control, one after the other
C8_Witness ==
    /\ nInc = 2 /\ nDec = 0
    /\ Mounted
    /\ count = 2

\* C9: as long as the import has not resolved, the count is 0, no control
\* has been activated, no callback has been called, and no activation is
\* possible.
C9_ZeroUntilResolved ==
    (Mounted /\ lazyStatus # Resolved) =>
        /\ count = 0
        /\ nInc = 0 /\ nDec = 0
        /\ incCalls = 0 /\ decCalls = 0
        /\ ~ENABLED ClickIncrement
        /\ ~ENABLED ClickDecrement

\* the mounted page waiting for the module
C9_Witness ==
    /\ Mounted
    /\ lazyStatus = Pending
    /\ count = 0
    /\ ~CounterShown

\* C10: every value queued by a callback is the count of the render that
\* created the callback plus or minus 1, and a batch of k calls of the
\* callbacks of one render leaves the count at the value of the last call,
\* one away from the captured count and not k away.
C10_CallbacksUseCapturedCount ==
    /\ []( CounterShown =>
             /\ \A i \in 1..2 : Button(i).onClick.count = count
             /\ \A j \in 1..Len(queue) : queue[j] \in {count + 1, count - 1} )
    /\ [][ (queue # <<>> /\ queue' = <<>>) =>
             /\ count' = queue[Len(queue)]
             /\ count' \in {count + 1, count - 1}
             /\ Len(queue) >= 2 =>
                    (count' # count + Len(queue) /\ count' # count - Len(queue)) ]_vars

\* onIncrement called twice in one batch: the count went up by one
C10_Witness ==
    /\ queue = <<>>
    /\ incCalls = nInc + 2 /\ decCalls = nDec
    /\ count = (nInc - nDec) + 1

====
